---------------------------- MODULE Spec2Model ----------------------------
(***************************************************************************)
(* DataBank (src/src/databank/database.py): the generic upsert / query     *)
(* layer over a PostgreSQL store, with the table definitions and the       *)
(* record-type registry of src/src/databank/models.py.                     *)
(*                                                                         *)
(* The store is modelled by what PostgreSQL and the asyncpg driver do with *)
(* the statements the code builds: statements are records (never strings), *)
(* parameters are bound by position, NULLs never conflict in a UNIQUE      *)
(* constraint, INTEGER parameters are 32 bits wide.                        *)
(***************************************************************************)
EXTENDS Integers, Sequences, FiniteSets, TLC

(***************************************************************************)
(* Python values a caller can put in a record: None, a str (the sequence   *)
(* of its pieces; numeric text is written one character per piece), an     *)
(* int, or an object that is neither (a list).                             *)
(* The store holds the same shapes: NULL, text, integer.                   *)
(***************************************************************************)
PyNone == [t |-> "none"]
PyStr(chars) == [t |-> "str", s |-> chars]
PyObj == [t |-> "obj"]

\* f itself, with the value at every argument worked out once.
Eager(f) == f @@ <<>>

\* The surrogate of "no row" / "no value" in the observation variables.
NoRow == [t |-> "norow"]

(***************************************************************************)
(* Python's int is unbounded: an int is its sign and its decimal digits    *)
(* (most significant first, no leading zero), so that a value wider than   *)
(* 32 bits is a value of the model too.                                    *)
(***************************************************************************)
Digits == <<"0", "1", "2", "3", "4", "5", "6", "7", "8", "9">>

IsDigit(c) == \E i \in 1..Len(Digits) : Digits[i] = c

DigitValue(c) == (CHOOSE i \in 1..Len(Digits) : Digits[i] = c) - 1

RECURSIVE Normalize(_)
Normalize(mag) ==
    IF Len(mag) > 1 /\ Head(mag) = "0" THEN Normalize(Tail(mag)) ELSE mag

MkInt(neg, mag) ==
    LET m == Normalize(mag)
    IN  [t |-> "int", neg |-> neg /\ m # <<"0">>, mag |-> m]

RECURSIVE NatDigits(_)
NatDigits(n) ==
    IF n < 10 THEN <<Digits[n + 1]>>
    ELSE Append(NatDigits(n \div 10), Digits[(n % 10) + 1])

PyInt(n) == IF n < 0 THEN MkInt(TRUE, NatDigits(0 - n)) ELSE MkInt(FALSE, NatDigits(n))

RECURSIVE DigitsValue(_, _)
DigitsValue(s, acc) ==
    IF s = <<>> THEN acc ELSE DigitsValue(Tail(s), acc * 10 + DigitValue(Head(s)))

\* The number a (small) int stands for.
IntValue(v) == IF v.neg THEN 0 - DigitsValue(v.mag, 0) ELSE DigitsValue(v.mag, 0)

\* a <= b for two magnitudes.
RECURSIVE MagLeq(_, _)
MagLeq(a, b) ==
    IF Len(a) # Len(b) THEN Len(a) < Len(b)
    ELSE IF a = <<>> THEN TRUE
    ELSE IF Head(a) # Head(b) THEN DigitValue(Head(a)) < DigitValue(Head(b))
    ELSE MagLeq(Tail(a), Tail(b))

(***************************************************************************)
(* int(x) of Python, for the values above.  A str parses when, after       *)
(* stripping blanks, it is an optional sign followed by one or more        *)
(* decimal digits; anything else raises ValueError.  int(<list>) raises    *)
(* TypeError.  The result is [ok, v].                                      *)
(***************************************************************************)
RECURSIVE StripLeft(_)
StripLeft(s) == IF s # <<>> /\ Head(s) = " " THEN StripLeft(Tail(s)) ELSE s

RECURSIVE StripRight(_)
StripRight(s) ==
    IF s # <<>> /\ s[Len(s)] = " " THEN StripRight(SubSeq(s, 1, Len(s) - 1)) ELSE s

ParseIntStr(chars) ==
    LET s == StripRight(StripLeft(chars))
        signed == s # <<>> /\ Head(s) \in {"+", "-"}
        body == IF signed THEN Tail(s) ELSE s
        wellFormed == body # <<>> /\ \A i \in 1..Len(body) : IsDigit(body[i])
    IN  IF ~wellFormed THEN [ok |-> FALSE, v |-> PyNone]
        ELSE [ok |-> TRUE, v |-> MkInt(signed /\ Head(s) = "-", body)]

PyIntOf(x) ==
    CASE x.t = "int" -> [ok |-> TRUE, v |-> x]
      [] x.t = "str" -> ParseIntStr(x.s)
      [] OTHER -> [ok |-> FALSE, v |-> PyNone]

(***************************************************************************)
(* models.py: the six CREATE TABLE statements.  Each table is its TEXT     *)
(* columns, its INTEGER columns, the columns' DEFAULTs and its one UNIQUE  *)
(* constraint.  Every table also has source_type (NOT NULL, defaulted) and *)
(* created_at (NOT NULL DEFAULT NOW()).  pk_id (a SERIAL no statement of   *)
(* the code names) and extra_data (never written) are left out.            *)
(***************************************************************************)
CREATE_CONTENTS_TABLE ==
    [text |-> {"source_type", "type", "collection_time", "uid", "sec_uid",
               "unique_id", "id", "desc", "text_extra", "duration",
               "share_url", "create_time", "uri", "nickname", "signature",
               "downloads", "music_author", "music_title", "music_url",
               "static_cover", "dynamic_cover", "tag", "extra"},
     integer |-> {"height", "width", "user_age", "digg_count",
                  "comment_count", "collect_count", "share_count",
                  "play_count"},
     zeroDefault |-> {"digg_count", "comment_count", "collect_count",
                      "share_count", "play_count"},
     sourceDefault |-> "detail",
     unique |-> <<"id", "source_type">>]

CREATE_COMMENTS_TABLE ==
    [text |-> {"source_type", "collection_time", "cid", "create_time", "uid",
               "sec_uid", "nickname", "signature", "ip_label", "text",
               "sticker", "image", "reply_id", "reply_to_reply_id"},
     integer |-> {"user_age", "digg_count", "reply_comment_total"},
     zeroDefault |-> {"digg_count", "reply_comment_total"},
     sourceDefault |-> "comment",
     unique |-> <<"cid">>]

CREATE_USERS_TABLE ==
    [text |-> {"source_type", "collection_time", "nickname", "url",
               "signature", "unique_id", "gender", "country", "province",
               "city", "district", "ip_location", "verify", "enterprise",
               "sec_uid", "uid", "short_id", "avatar", "cover"},
     integer |-> {"user_age", "aweme_count", "total_favorited",
                  "favoriting_count", "follower_count", "following_count",
                  "max_follower_count"},
     zeroDefault |-> {"aweme_count", "total_favorited", "favoriting_count",
                      "follower_count", "following_count",
                      "max_follower_count"},
     sourceDefault |-> "user",
     unique |-> <<"uid">>]

CREATE_SEARCH_USERS_TABLE ==
    [text |-> {"source_type", "collection_time", "uid", "sec_uid",
               "nickname", "unique_id", "short_id", "avatar", "signature",
               "verify", "enterprise"},
     integer |-> {"follower_count", "total_favorited"},
     zeroDefault |-> {"follower_count", "total_favorited"},
     sourceDefault |-> "search_user",
     unique |-> <<"uid">>]

CREATE_SEARCH_LIVES_TABLE ==
    [text |-> {"source_type", "collection_time", "room_id", "uid", "sec_uid",
               "nickname", "short_id", "avatar", "signature", "verify",
               "enterprise"},
     integer |-> {},
     zeroDefault |-> {},
     sourceDefault |-> "search_live",
     unique |-> <<"room_id">>]

CREATE_HOT_TRENDS_TABLE ==
    [text |-> {"source_type", "word", "cover", "event_time", "sentence_id"},
     integer |-> {"position", "hot_value", "view_count", "video_count"},
     zeroDefault |-> {"hot_value", "view_count", "video_count"},
     sourceDefault |-> "hot",
     unique |-> <<"sentence_id", "event_time">>]

\* The tables CREATE_TABLES_SQL creates, by name.
CREATE_TABLES_SQL ==
    [contents |-> CREATE_CONTENTS_TABLE,
     comments |-> CREATE_COMMENTS_TABLE,
     users |-> CREATE_USERS_TABLE,
     search_users |-> CREATE_SEARCH_USERS_TABLE,
     search_lives |-> CREATE_SEARCH_LIVES_TABLE,
     hot_trends |-> CREATE_HOT_TRENDS_TABLE]

TableNames == DOMAIN CREATE_TABLES_SQL

TableColumns(table) ==
    CREATE_TABLES_SQL[table].text \cup CREATE_TABLES_SQL[table].integer
        \cup {"created_at"}

(***************************************************************************)
(* models.py: TABLE_CONFIGS, record-type tag -> table, ordered field list, *)
(* source_type.  detail, mix and search_general share one field list.      *)
(***************************************************************************)
ContentFields ==
    <<"type", "collection_time", "uid", "sec_uid", "unique_id", "id",
      "desc", "text_extra", "duration", "height", "width", "share_url",
      "create_time", "uri", "nickname", "user_age", "signature",
      "downloads", "music_author", "music_title", "music_url",
      "static_cover", "dynamic_cover", "tag", "digg_count",
      "comment_count", "collect_count", "share_count", "play_count",
      "extra">>

TABLE_CONFIGS ==
    [detail |-> [table |-> "contents", fields |-> ContentFields,
                 source_type |-> "detail"],
     mix |-> [table |-> "contents", fields |-> ContentFields,
              source_type |-> "mix"],
     search_general |-> [table |-> "contents", fields |-> ContentFields,
                         source_type |-> "search_general"],
     comment |->
        [table |-> "comments",
         fields |-> <<"collection_time", "cid", "create_time", "uid",
                      "sec_uid", "nickname", "signature", "user_age",
                      "ip_label", "text", "sticker", "image", "digg_count",
                      "reply_comment_total", "reply_id",
                      "reply_to_reply_id">>,
         source_type |-> "comment"],
     user |->
        [table |-> "users",
         fields |-> <<"collection_time", "nickname", "url", "signature",
                      "unique_id", "user_age", "gender", "country",
                      "province", "city", "district", "ip_location",
                      "verify", "enterprise", "sec_uid", "uid", "short_id",
                      "avatar", "cover", "aweme_count", "total_favorited",
                      "favoriting_count", "follower_count",
                      "following_count", "max_follower_count">>,
         source_type |-> "user"],
     search_user |->
        [table |-> "search_users",
         fields |-> <<"collection_time", "uid", "sec_uid", "nickname",
                      "unique_id", "short_id", "avatar", "signature",
                      "verify", "enterprise", "follower_count",
                      "total_favorited">>,
         source_type |-> "search_user"],
     search_live |->
        [table |-> "search_lives",
         fields |-> <<"collection_time", "room_id", "uid", "sec_uid",
                      "nickname", "short_id", "avatar", "signature",
                      "verify", "enterprise">>,
         source_type |-> "search_live"],
     hot |->
        [table |-> "hot_trends",
         fields |-> <<"position", "word", "hot_value", "cover",
                      "event_time", "view_count", "video_count",
                      "sentence_id">>,
         source_type |-> "hot"]]

\* database.py: DataBank._INTEGER_COLUMNS, and .get(table, set()).
INTEGER_COLUMNS ==
    [contents |-> {"height", "width", "digg_count", "comment_count",
                   "collect_count", "share_count", "play_count", "user_age"},
     comments |-> {"digg_count", "reply_comment_total", "user_age"},
     users |-> {"user_age", "aweme_count", "total_favorited",
                "favoriting_count", "follower_count", "following_count",
                "max_follower_count"},
     search_users |-> {"follower_count", "total_favorited"},
     hot_trends |-> {"position", "hot_value", "view_count", "video_count"}]

IntegerColumnsOf(table) ==
    IF table \in DOMAIN INTEGER_COLUMNS THEN INTEGER_COLUMNS[table] ELSE {}

\* database.py: the four column names every statement builder quotes.
QuotedWords == {"desc", "text", "type", "user"}

\* PostgreSQL: of those, the words that are reserved and fail unquoted.
PgReservedWords == {"desc", "user"}

(***************************************************************************)
(* Bounds of the model.                                                    *)
(***************************************************************************)
\* Rows the store holds at most, over all tables.
MaxRows == 2

\* Records one save_batch call carries at most.
MaxBatch == 2

\* Connection pools initialize creates at most.
MaxPools == 2

\* Calls that run concurrently at most.
MaxTasks == 2

(***************************************************************************)
(* The store.  A row is a function from the columns that are not NULL to   *)
(* their values; a table is the sequence of its rows in insertion order.   *)
(***************************************************************************)
Get(row, c) == IF c \in DOMAIN row THEN row[c] ELSE PyNone

RECURSIVE SumLen(_, _)
SumLen(db, tables) ==
    IF tables = {} THEN 0
    ELSE LET t == CHOOSE x \in tables : TRUE
         IN  Len(db[t]) + SumLen(db, tables \ {t})

TotalRows(db) == SumLen(db, TableNames)

EmptyStore == [t \in TableNames |-> <<>>]

\* INTEGER is 32 bits wide: the driver refuses an int outside
\* -2147483648 .. 2147483647.
Int32MinMag == <<"2", "1", "4", "7", "4", "8", "3", "6", "4", "8">>
Int32MaxMag == <<"2", "1", "4", "7", "4", "8", "3", "6", "4", "7">>

InInt32(v) == IF v.neg THEN MagLeq(v.mag, Int32MinMag) ELSE MagLeq(v.mag, Int32MaxMag)

SeqRange(s) == {s[i] : i \in 1..Len(s)}

\* An identifier of a statement: a name, quoted or bare.
Ident(name, quoted) == [name |-> name, quoted |-> quoted]

IdentOk(id) == id.quoted \/ id.name \notin PgReservedWords

\* The outcome of one statement: an error (with the column it names, if
\* any), the store after it, the row it replaced, its result value.
Outcome(err, col, db, old, val) ==
    [err |-> err, col |-> col, db |-> db, old |-> old, val |-> val,
     stmts |-> IF err = "ConnectionError" THEN 0 ELSE 1]

\* The driver encodes parameter v for a column of the table; "" when it can.
EncodeError(table, c, v) ==
    IF v = PyNone THEN ""
    ELSE IF c \in CREATE_TABLES_SQL[table].integer
         THEN IF v.t # "int" \/ ~InInt32(v)
              THEN "DataError" ELSE ""
         ELSE IF c = "created_at" \/ v.t # "str" THEN "DataError" ELSE ""

\* The row an INSERT proposes: the given values (an explicit NULL stays
\* NULL), the columns' defaults for the columns it does not name.
ProposedRow(table, given, now) ==
    LET ddl == CREATE_TABLES_SQL[table]
        defaulted == (ddl.zeroDefault \cup {"source_type", "created_at"})
                        \ DOMAIN given
        cols == {c \in DOMAIN given : given[c] # PyNone} \cup defaulted
    IN  Eager([c \in cols |->
                IF c \in DOMAIN given THEN given[c]
                ELSE IF c = "created_at" THEN PyInt(now)
                ELSE IF c = "source_type" THEN PyStr(<<ddl.sourceDefault>>)
                ELSE PyInt(0)])

\* A table without the constraint: no row conflicts.
ConflictsNever(row, proposed, target) == FALSE

\* A stored row conflicts with a proposed one on a UNIQUE constraint when
\* every constrained column is non-NULL and equal: NULLs are distinct.
Conflicts(row, proposed, target) ==
    \A i \in 1..Len(target) :
        /\ Get(proposed, target[i]) # PyNone
        /\ Get(row, target[i]) = Get(proposed, target[i])

\* The row after DO UPDATE SET c = EXCLUDED.c for the columns c of set.
UpdatedRow(row, proposed, set) ==
    LET cols == (DOMAIN row \ {c \in set : Get(proposed, c) = PyNone})
                    \cup {c \in set : Get(proposed, c) # PyNone}
    IN  Eager([c \in cols |-> IF c \in set THEN proposed[c] ELSE row[c]])

(***************************************************************************)
(* INSERT INTO table (columns) VALUES ($1..$n) [ON CONFLICT (target) DO    *)
(* UPDATE SET set], as PostgreSQL runs it: parse, resolve the names,       *)
(* encode the parameters, then insert or update one row.                   *)
(***************************************************************************)
ExecInsert(db, sql, params) ==
    LET names == [i \in 1..Len(sql.columns) |-> sql.columns[i].name]
        setNames == [i \in 1..Len(sql.set) |-> sql.set[i].name]
        fail(e, c) == Outcome(e, c, db, NoRow, PyNone)
    IN
    IF \/ sql.columns = <<>>
       \/ \E i \in 1..Len(sql.columns) : ~IdentOk(sql.columns[i])
       \/ \E i \in 1..Len(sql.set) : ~IdentOk(sql.set[i])
       \/ sql.onConflict /\ sql.set = <<>>
    THEN fail("PostgresSyntaxError", "")
    ELSE IF sql.table \notin TableNames THEN fail("UndefinedTableError", "")
    ELSE IF \E c \in SeqRange(names) \cup SeqRange(setNames) :
                c \notin TableColumns(sql.table)
    THEN fail("UndefinedColumnError",
              CHOOSE c \in SeqRange(names) \cup SeqRange(setNames) :
                  c \notin TableColumns(sql.table))
    ELSE IF sql.onConflict /\ sql.target # CREATE_TABLES_SQL[sql.table].unique
    THEN fail("InvalidColumnReferenceError", "")
    ELSE IF \E i \in 1..Len(names) :
                \/ sql.values[i] \notin 1..Len(params)
                \/ EncodeError(sql.table, names[i], params[sql.values[i]]) # ""
    THEN LET i == CHOOSE j \in 1..Len(names) :
                    \/ sql.values[j] \notin 1..Len(params)
                    \/ EncodeError(sql.table, names[j],
                                   params[sql.values[j]]) # ""
         IN  fail("DataError", names[i])
    ELSE
    LET rows == db[sql.table]
        given == Eager([c \in SeqRange(names) |->
                          params[sql.values[CHOOSE i \in 1..Len(names) :
                                                names[i] = c]]])
        proposed == ProposedRow(sql.table, given, TotalRows(db) + 1)
        hits == {i \in 1..Len(rows) :
                    Conflicts(rows[i], proposed,
                              CREATE_TABLES_SQL[sql.table].unique)}
    IN  IF hits = {}
        THEN Outcome("", "",
                     [db EXCEPT ![sql.table] = Append(rows, proposed)],
                     NoRow, PyNone)
        ELSE IF ~sql.onConflict THEN fail("UniqueViolationError", "")
        ELSE LET i == CHOOSE j \in hits : TRUE
             IN  Outcome("", "",
                         [db EXCEPT ![sql.table][i] =
                             UpdatedRow(rows[i], proposed,
                                        SeqRange(setNames))],
                         rows[i], PyNone)

(***************************************************************************)
(* The state of one DataBank and of the store behind it.                   *)
(***************************************************************************)
VARIABLES
    pool,       \* self.pool: 0 for None, else the pool's number
    enabled,    \* self._enabled
    opened,     \* the pools created so far that are still open
    created,    \* how many pools have been created
    store,      \* the tables' rows
    life,       \* what the last initialize / close call made of the layer
    call,       \* the last call and its arguments
    ret,        \* what it returned, or that it raised
    log,        \* one entry per data method body it ran
    flight,     \* the calls running concurrently, by task
    checkedOut  \* connections of the pool that are checked out

vars == <<pool, enabled, opened, created, store, life, call, ret, log,
          flight, checkedOut>>

\* A Python dict: its keys in insertion order and their values.
EmptyDict == [keys |-> <<>>, val |-> <<>>]

DictSet(d, k, v) ==
    [keys |-> IF k \in SeqRange(d.keys) THEN d.keys ELSE Append(d.keys, k),
     val |-> (k :> v) @@ d.val]

Returned(v) == [raised |-> FALSE, val |-> v]
Raised(e) == [raised |-> TRUE, val |-> e]

\* What one run of a data method's body did: the connections it asked the
\* pool for, the error of its statement, the row the statement replaced.
Entry(acquired, out, r) ==
    [acquired |-> acquired, stmts |-> out.stmts, err |-> out.err, col |-> out.col, old |-> out.old,
     ret |-> r]

NoStatement == [Outcome("", "", EmptyStore, NoRow, PyNone) EXCEPT !.stmts = 0]

\* An is_available that looks at the pool only.
IsAvailablePoolOnly(p, e) == p # 0

\* DataBank.is_available
IsAvailable(p, e) == e /\ p # 0

\* A loop that pairs field i with the value after it.
BuildValuesShifted(fields, data) ==
    LET n == IF Len(data) - 1 < Len(fields) THEN Len(data) - 1 ELSE Len(fields)
    IN  [keys |-> SubSeq(fields, 1, n),
         val |-> Eager([c \in {fields[i] : i \in 1..n} |->
                          data[(CHOOSE i \in 1..n : fields[i] = c) + 1]])]

\* DataBank.save: the field -> value mapping built from positional data
\* (for i, field in enumerate(fields): if i < len(data): ...).
BuildValues(fields, data) ==
    LET n == IF Len(data) < Len(fields) THEN Len(data) ELSE Len(fields)
    IN  [keys |-> SubSeq(fields, 1, n),
         val |-> Eager([c \in {fields[i] : i \in 1..n} |->
                          data[CHOOSE i \in 1..n : fields[i] = c]])]

\* A coercion that leaves the value it cannot parse in place.
CoerceValueKeeping(v) == IF PyIntOf(v).ok THEN PyIntOf(v).v ELSE v

\* DataBank._coerce_types, for one value that is present and not None.
CoerceValue(v) == IF PyIntOf(v).ok THEN PyIntOf(v).v ELSE PyInt(0)

\* DataBank._coerce_types
CoerceTypes(table, values) ==
    [keys |-> values.keys,
     val |-> Eager([c \in DOMAIN values.val |->
                      IF c \in IntegerColumnsOf(table) /\ values.val[c] # PyNone
                      THEN CoerceValue(values.val[c]) ELSE values.val[c]])]

\* DataBank._get_conflict_target: the target's columns, <<>> for None.
GetConflictTarget(table) ==
    CASE table = "contents" -> <<"id", "source_type">>
      [] table = "comments" -> <<"cid">>
      [] table = "users" -> <<"uid">>
      [] table = "search_users" -> <<"uid">>
      [] table = "search_lives" -> <<"room_id">>
      [] table = "hot_trends" -> <<"sentence_id", "event_time">>
      [] OTHER -> <<>>

\* A SET clause that assigns the first updatable column only.
UpdateColsFirstOnly(columns, conflict_cols) ==
    LET Keep(c) == c \notin SeqRange(conflict_cols)
        all == SelectSeq(columns, Keep)
    IN  IF all = <<>> THEN <<>> ELSE <<Head(all)>>

\* DataBank._upsert: the columns DO UPDATE SET assigns.
UpdateCols(columns, conflict_cols) ==
    LET Keep(c) == c \notin SeqRange(conflict_cols)
    IN  SelectSeq(columns, Keep)

\* clean_values that keeps the None values.
CleanColumnsKeepingNone(values) == values.keys

\* DataBank._upsert: the keys of clean_values, the values that are not None.
CleanColumns(values) ==
    LET NotNone(k) == values.val[k] # PyNone
    IN  SelectSeq(values.keys, NotNone)

\* DataBank._upsert: the statement and its parameters.
UpsertStatement(table, values) ==
    LET columns == CleanColumns(values)
        placeholders == [i \in 1..Len(columns) |-> i]
        params == [i \in 1..Len(columns) |-> values.val[columns[i]]]
        quoted_columns ==
            [i \in 1..Len(columns) |-> Ident(columns[i], columns[i] \in QuotedWords)]
        conflict_target == GetConflictTarget(table)
        update_cols == UpdateCols(columns, conflict_target)
        update_quoted ==
            [i \in 1..Len(update_cols) |->
                Ident(update_cols[i], update_cols[i] \in QuotedWords)]
    IN  [sql |-> [kind |-> "insert", table |-> table,
                  columns |-> quoted_columns, values |-> placeholders,
                  onConflict |-> conflict_target # <<>>,
                  target |-> conflict_target,
                  set |-> IF conflict_target # <<>> THEN update_quoted ELSE <<>>],
         params |-> params]

\* DataBank._upsert: build the statement, acquire a connection, execute.
\* fault: the store cannot be reached for this statement.
Upsert(db, table, values, fault) ==
    LET st == UpsertStatement(table, values)
    IN  IF fault THEN Outcome("ConnectionError", "", db, NoRow, PyNone)
        ELSE ExecInsert(db, st.sql, st.params)

\* A mapping that leaves source_type to the column's default.
SaveValuesWithoutSource(data, type_) ==
    BuildValues(TABLE_CONFIGS[type_].fields, data)

\* DataBank.save: values, with source_type added.
SaveValues(data, type_) ==
    DictSet(BuildValues(TABLE_CONFIGS[type_].fields, data),
            "source_type", PyStr(<<TABLE_CONFIGS[type_].source_type>>))

\* DataBank.save: the try block.
SaveTry(db, data, type_, fault) ==
    LET config == TABLE_CONFIGS[type_]
        values == SaveValues(data, type_)
    IN  Upsert(db, config.table, CoerceTypes(config.table, values), fault)

\* A save without the except clause.
SaveExceptMissing(out) == IF out.err # "" THEN Raised(out.err) ELSE Returned(TRUE)

\* DataBank.save: the except clause, and the return after the try block.
SaveExcept(out) == IF out.err # "" THEN Returned(FALSE) ELSE Returned(TRUE)

\* A save that indexes TABLE_CONFIGS[type_]: an unknown tag raises KeyError.
SaveCallIndexing(p, e, db, data, type_, fault) ==
    IF ~IsAvailable(p, e)
    THEN [ret |-> Returned(FALSE), db |-> db,
          entry |-> Entry(0, NoStatement, Returned(FALSE))]
    ELSE IF type_ \notin DOMAIN TABLE_CONFIGS
    THEN [ret |-> Raised("KeyError"), db |-> db,
          entry |-> Entry(0, NoStatement, Raised("KeyError"))]
    ELSE LET out == SaveTry(db, data, type_, fault)
         IN  [ret |-> SaveExcept(out), db |-> out.db,
              entry |-> Entry(1, out, SaveExcept(out))]

\* DataBank.save, as a function of the state it reads: what it returns,
\* the store after it, and what it did.
SaveCall(p, e, db, data, type_, fault) ==
    IF ~IsAvailable(p, e)
    THEN [ret |-> Returned(FALSE), db |-> db,
          entry |-> Entry(0, NoStatement, Returned(FALSE))]
    ELSE IF type_ \notin DOMAIN TABLE_CONFIGS
    THEN [ret |-> Returned(FALSE), db |-> db,
          entry |-> Entry(0, NoStatement, Returned(FALSE))]
    ELSE LET out == SaveTry(db, data, type_, fault)
         IN  [ret |-> SaveExcept(out), db |-> out.db,
              entry |-> Entry(1, out, SaveExcept(out))]

\* DataBank.save_batch: the loop over items[i..], saved so far.
RECURSIVE SaveLoop(_, _, _, _, _, _, _, _, _)
SaveLoop(p, e, db, items, type_, faults, i, saved, entries) ==
    IF i > Len(items)
    THEN [ret |-> Returned(saved), db |-> db, entries |-> entries]
    ELSE LET r == SaveCall(p, e, db, items[i], type_, faults[i])
         IN  IF r.ret.raised
             THEN [ret |-> r.ret, db |-> r.db, entries |-> Append(entries, r.entry)]
             ELSE SaveLoop(p, e, r.db, items, type_, faults, i + 1,
                           IF r.ret.val THEN saved + 1 ELSE saved,
                           Append(entries, r.entry))

\* A save_batch that counts the records it attempted.
SaveBatchCountingAttempts(p, e, db, items, type_, faults) ==
    IF ~IsAvailable(p, e)
    THEN [ret |-> Returned(0), db |-> db, entries |-> <<>>]
    ELSE [SaveLoop(p, e, db, items, type_, faults, 1, 0, <<>>)
            EXCEPT !.ret = Returned(Len(items))]

\* DataBank.save_batch
SaveBatchCall(p, e, db, items, type_, faults) ==
    IF ~IsAvailable(p, e)
    THEN [ret |-> Returned(0), db |-> db, entries |-> <<>>]
    ELSE SaveLoop(p, e, db, items, type_, faults, 1, 0, <<>>)

(***************************************************************************)
(* SELECT, as PostgreSQL runs it.  A filter is col = $i; a NULL on either  *)
(* side matches nothing.  order_by is the caller's text; the store knows   *)
(* the two clauses below and rejects any other.                            *)
(***************************************************************************)
OrderClauses == {"created_at DESC", "created_at ASC"}

\* row a comes before row b under the clause.
Before(a, b, order_by) ==
    IF order_by = "created_at DESC"
    THEN IntValue(a["created_at"]) >= IntValue(b["created_at"])
    ELSE IntValue(a["created_at"]) <= IntValue(b["created_at"])

RECURSIVE InsertSorted(_, _, _)
InsertSorted(sorted, row, order_by) ==
    IF sorted = <<>> THEN <<row>>
    ELSE IF Before(Head(sorted), row, order_by)
         THEN <<Head(sorted)>> \o InsertSorted(Tail(sorted), row, order_by)
         ELSE <<row>> \o sorted

RECURSIVE SortRows(_, _)
SortRows(rows, order_by) ==
    IF rows = <<>> THEN <<>>
    ELSE InsertSorted(SortRows(SubSeq(rows, 1, Len(rows) - 1), order_by),
                      rows[Len(rows)], order_by)

\* dict(row): every column of the table, None for NULL.
RowDict(table, row) == Eager([c \in TableColumns(table) |-> Get(row, c)])

Matches(row, where, params) ==
    \A i \in 1..Len(where) :
        /\ params[where[i].param] # PyNone
        /\ Get(row, where[i].col.name) = params[where[i].param]

\* The parse, name and parameter errors of a SELECT; "" when it can run.
SelectError(sql, params) ==
    IF \E i \in 1..Len(sql.where) : ~IdentOk(sql.where[i].col)
    THEN "PostgresSyntaxError"
    ELSE IF sql.kind = "select" /\ sql.order_by \notin OrderClauses
    THEN "PostgresSyntaxError"
    ELSE IF sql.table \notin TableNames THEN "UndefinedTableError"
    ELSE IF \E i \in 1..Len(sql.where) :
                sql.where[i].col.name \notin TableColumns(sql.table)
    THEN "UndefinedColumnError"
    ELSE IF \E i \in 1..Len(sql.where) :
                \/ sql.where[i].param \notin 1..Len(params)
                \/ EncodeError(sql.table, sql.where[i].col.name,
                               params[sql.where[i].param]) # ""
    THEN "DataError"
    ELSE IF sql.kind = "select" /\ sql.limit # 0 /\
            \E i \in {sql.limit, sql.offset} :
                \/ i \notin 1..Len(params)
                \/ params[i].t \notin {"int", "none"}
    THEN "DataError"
    ELSE IF sql.kind = "select" /\ sql.limit # 0 /\
            \E i \in {sql.limit, sql.offset} : params[i].t = "int" /\ params[i].neg
    THEN "InvalidRowCountError"
    ELSE ""

\* s without its first n elements / its first n elements.
Drop(s, n) == IF n >= Len(s) THEN <<>> ELSE SubSeq(s, n + 1, Len(s))
Take(s, n) == IF n >= Len(s) THEN s ELSE SubSeq(s, 1, n)

\* SELECT * FROM table [WHERE ..] ORDER BY order_by [LIMIT $l OFFSET $o]
\* (sql.limit = 0: no LIMIT clause), and SELECT COUNT( * ) FROM table [WHERE ..].
ExecSelect(db, sql, params) ==
    IF SelectError(sql, params) # ""
    THEN Outcome(SelectError(sql, params), "", db, NoRow, PyNone)
    ELSE
    LET Hit(row) == Matches(row, sql.where, params)
        hits == SelectSeq(db[sql.table], Hit)
    IN  IF sql.kind = "count" THEN Outcome("", "", db, NoRow, Len(hits))
        ELSE
        LET sorted == SortRows(hits, sql.order_by)
            skipped == IF sql.limit = 0 \/ params[sql.offset] = PyNone THEN sorted
                       ELSE Drop(sorted, IntValue(params[sql.offset]))
            kept == IF sql.limit = 0 \/ params[sql.limit] = PyNone THEN skipped
                    ELSE Take(skipped, IntValue(params[sql.limit]))
        IN  Outcome("", "", db, NoRow,
                    [i \in 1..Len(kept) |-> RowDict(sql.table, kept[i])])

(***************************************************************************)
(* DataBank.query / count / get_all_data: the WHERE clause built from the  *)
(* filters, and the statement each method sends.                           *)
(***************************************************************************)
\* The loop over filters.items(): col = $idx for idx = 1, 2, ..
WhereParts(filters) ==
    [i \in 1..Len(filters.keys) |->
        [col |-> Ident(filters.keys[i], filters.keys[i] \in QuotedWords),
         param |-> i]]

FilterParams(filters) == [i \in 1..Len(filters.keys) |-> filters.val[filters.keys[i]]]

\* A query that extends params with [offset, limit].
QueryStatementSwapped(table, filters, limit, offset, order_by) ==
    LET idx == Len(filters.keys) + 1
    IN  [sql |-> [kind |-> "select", table |-> table, where |-> WhereParts(filters),
                  order_by |-> order_by, limit |-> idx, offset |-> idx + 1],
         params |-> FilterParams(filters) \o <<offset, limit>>]

\* DataBank.query: the statement and params.extend([limit, offset]).
QueryStatement(table, filters, limit, offset, order_by) ==
    LET idx == Len(filters.keys) + 1
    IN  [sql |-> [kind |-> "select", table |-> table, where |-> WhereParts(filters),
                  order_by |-> order_by, limit |-> idx, offset |-> idx + 1],
         params |-> FilterParams(filters) \o <<limit, offset>>]

\* DataBank.count: the statement.
CountStatement(table, filters) ==
    [sql |-> [kind |-> "count", table |-> table, where |-> WhereParts(filters)],
     params |-> FilterParams(filters)]

\* A get_all_data with the default page of query (LIMIT 1 here).
GetAllStatementPaged(table, filters, order_by) ==
    LET idx == Len(filters.keys) + 1
    IN  [sql |-> [kind |-> "select", table |-> table, where |-> WhereParts(filters),
                  order_by |-> order_by, limit |-> idx, offset |-> idx + 1],
         params |-> FilterParams(filters) \o <<PyInt(1), PyInt(0)>>]

\* DataBank.get_all_data: the statement.
GetAllStatement(table, filters, order_by) ==
    [sql |-> [kind |-> "select", table |-> table, where |-> WhereParts(filters),
              order_by |-> order_by, limit |-> 0, offset |-> 0],
     params |-> FilterParams(filters)]

\* async with self.pool.acquire() as conn: fetch / fetchval.
Fetch(db, st, fault) ==
    IF fault THEN Outcome("ConnectionError", "", db, NoRow, PyNone)
    ELSE ExecSelect(db, st.sql, st.params)

\* What a method without a try block returns for its statement's outcome.
Propagate(out) == IF out.err # "" THEN Raised(out.err) ELSE Returned(out.val)

\* DataBank.query
QueryCall(p, e, db, table, filters, limit, offset, order_by, fault) ==
    IF ~IsAvailable(p, e)
    THEN [ret |-> Returned(<<>>), entry |-> Entry(0, NoStatement, Returned(<<>>))]
    ELSE LET out == Fetch(db, QueryStatement(table, filters, limit, offset, order_by),
                          fault)
         IN  [ret |-> Propagate(out), entry |-> Entry(1, out, Propagate(out))]

\* DataBank.count
CountCall(p, e, db, table, filters, fault) ==
    IF ~IsAvailable(p, e)
    THEN [ret |-> Returned(0), entry |-> Entry(0, NoStatement, Returned(0))]
    ELSE LET out == Fetch(db, CountStatement(table, filters), fault)
         IN  [ret |-> Propagate(out), entry |-> Entry(1, out, Propagate(out))]

\* DataBank.get_all_data
GetAllDataCall(p, e, db, table, filters, order_by, fault) ==
    IF ~IsAvailable(p, e)
    THEN [ret |-> Returned(<<>>), entry |-> Entry(0, NoStatement, Returned(<<>>))]
    ELSE LET out == Fetch(db, GetAllStatement(table, filters, order_by), fault)
         IN  [ret |-> Propagate(out), entry |-> Entry(1, out, Propagate(out))]

\* DataBank.get_statistics: the fixed list of tables.
StatisticsTables ==
    <<"contents", "comments", "users", "search_users", "search_lives", "hot_trends">>

\* DataBank.get_statistics: one connection, one COUNT per table.
GetStatisticsCall(p, e, db, fault) ==
    IF ~IsAvailable(p, e)
    THEN [ret |-> Returned(<<>>), entry |-> Entry(0, NoStatement, Returned(<<>>))]
    ELSE IF fault
    THEN LET out == Outcome("ConnectionError", "", db, NoRow, PyNone)
         IN  [ret |-> Propagate(out), entry |-> Entry(1, out, Propagate(out))]
    ELSE LET stats == [t \in SeqRange(StatisticsTables) |->
                          ExecSelect(db, CountStatement(t, EmptyDict).sql, <<>>).val]
             out == [Outcome("", "", db, NoRow, stats)
                        EXCEPT !.stmts = Len(StatisticsTables)]
         IN  [ret |-> Propagate(out), entry |-> Entry(1, out, Propagate(out))]

(***************************************************************************)
(* The operations of a DataBank, each one whole call.  The calls of        *)
(* flight (further down) run step by step instead.                         *)
(***************************************************************************)
\* The tasks of the event loop that call the DataBank concurrently, and a
\* task that has made no call.
Tasks == 1..MaxTasks

Idle == [pc |-> "idle"]

Init ==
    /\ pool = 0
    /\ enabled = TRUE
    /\ opened = {}
    /\ created = 0
    /\ store = EmptyStore
    /\ life = "uninitialized"
    /\ call = [op |-> "init"]
    /\ ret = Returned(PyNone)
    /\ log = <<>>
    /\ flight = [t \in Tasks |-> Idle]
    /\ checkedOut = 0

\* DataBank.initialize.  outcome: "ok", "no_pool" (create_pool raises) or
\* "no_tables" (the pool is created and CREATE_TABLES_SQL fails).
Initialize(outcome) ==
    /\ outcome # "no_pool" => created < MaxPools
    /\ IF outcome = "no_pool"
       THEN UNCHANGED <<pool, opened, created>>
       ELSE /\ pool' = created + 1
            /\ opened' = opened \cup {created + 1}
            /\ created' = created + 1
    /\ enabled' = IF outcome = "ok" THEN enabled ELSE FALSE
    /\ life' = IF outcome = "ok" THEN "ready" ELSE "degraded"
    /\ ret' = Returned(outcome = "ok")
    /\ call' = [op |-> "initialize"]
    /\ log' = <<>>
    /\ UNCHANGED <<store, flight, checkedOut>>

\* DataBank.close
Close ==
    /\ pool' = 0
    /\ opened' = opened \ {pool}
    /\ life' = IF life = "uninitialized" THEN life ELSE "closed"
    /\ ret' = Returned(PyNone)
    /\ call' = [op |-> "close"]
    /\ log' = <<>>
    /\ UNCHANGED <<enabled, created, store, flight, checkedOut>>

\* DataBank.save
Save(data, type_, fault) ==
    \E r \in {SaveCall(pool, enabled, store, data, type_, fault)} :
        /\ TotalRows(r.db) <= MaxRows
        /\ store' = r.db
        /\ ret' = r.ret
        /\ log' = <<r.entry>>
        /\ call' = [op |-> "save", data |-> data, type_ |-> type_]
        /\ UNCHANGED <<pool, enabled, opened, created, life, flight, checkedOut>>

\* DataBank.save_batch
SaveBatch(items, type_, faults) ==
    \E r \in {SaveBatchCall(pool, enabled, store, items, type_, faults)} :
        /\ TotalRows(r.db) <= MaxRows
        /\ store' = r.db
        /\ ret' = r.ret
        /\ log' = r.entries
        /\ call' = [op |-> "save_batch", items |-> items, type_ |-> type_]
        /\ UNCHANGED <<pool, enabled, opened, created, life, flight, checkedOut>>

\* DataBank.query
Query(table, filters, limit, offset, order_by, fault) ==
    \E r \in {QueryCall(pool, enabled, store, table, filters, PyInt(limit),
                       PyInt(offset), order_by, fault)} :
        /\ ret' = r.ret
        /\ log' = <<r.entry>>
        /\ call' = [op |-> "query", table |-> table, filters |-> filters,
                    limit |-> limit, offset |-> offset, order_by |-> order_by]
        /\ UNCHANGED <<pool, enabled, opened, created, life, store, flight,
                       checkedOut>>

\* DataBank.count
Count(table, filters, fault) ==
    \E r \in {CountCall(pool, enabled, store, table, filters, fault)} :
        /\ ret' = r.ret
        /\ log' = <<r.entry>>
        /\ call' = [op |-> "count", table |-> table, filters |-> filters]
        /\ UNCHANGED <<pool, enabled, opened, created, life, store, flight,
                       checkedOut>>

\* DataBank.get_all_data
GetAllData(table, filters, order_by, fault) ==
    \E r \in {GetAllDataCall(pool, enabled, store, table, filters, order_by, fault)} :
        /\ ret' = r.ret
        /\ log' = <<r.entry>>
        /\ call' = [op |-> "get_all_data", table |-> table, filters |-> filters,
                    order_by |-> order_by]
        /\ UNCHANGED <<pool, enabled, opened, created, life, store, flight,
                       checkedOut>>

\* DataBank.get_statistics
GetStatistics(fault) ==
    \E r \in {GetStatisticsCall(pool, enabled, store, fault)} :
        /\ ret' = r.ret
        /\ log' = <<r.entry>>
        /\ call' = [op |-> "get_statistics"]
        /\ UNCHANGED <<pool, enabled, opened, created, life, store, flight,
                       checkedOut>>

(***************************************************************************)
(* The inputs the operations are explored with.                            *)
(***************************************************************************)
Tags == DOMAIN TABLE_CONFIGS

InitOutcomes == {"ok", "no_pool", "no_tables"}

\* For each tag: the first column of its table's conflict target, a TEXT
\* column and an INTEGER column of its field list ("" when it has none).
KeyCol(tag) == GetConflictTarget(TABLE_CONFIGS[tag].table)[1]

TextCol(tag) ==
    CASE TABLE_CONFIGS[tag].table = "contents" -> "desc"
      [] TABLE_CONFIGS[tag].table = "comments" -> "text"
      [] TABLE_CONFIGS[tag].table = "hot_trends" -> "word"
      [] OTHER -> "nickname"

IntCol(tag) ==
    CASE tag = "detail" -> "digg_count"
      [] tag = "mix" -> "height"
      [] tag = "search_general" -> "user_age"
      [] tag = "comment" -> "reply_comment_total"
      [] tag = "user" -> "aweme_count"
      [] tag = "search_user" -> "follower_count"
      [] tag = "hot" -> "hot_value"
      [] OTHER -> ""

\* Positional data of length n for a tag: the values asg gives to the
\* fields it names, None elsewhere, "x" beyond the field list.
MkData(tag, asg, n) ==
    LET fields == TABLE_CONFIGS[tag].fields
    IN  Eager([i \in 1..n |->
                IF i > Len(fields) THEN PyStr(<<"x">>)
                ELSE IF fields[i] \in DOMAIN asg THEN asg[fields[i]] ELSE PyNone])

K1 == PyStr(<<"k", "1">>)
K2 == PyStr(<<"k", "2">>)
TextA == PyStr(<<"a">>)
TextB == PyStr(<<"b">>)
Num7 == PyStr(<<"7">>)
Num9 == PyStr(<<" ", "0", "9">>)
NotANumber == PyStr(<<"N", "/", "A">>)
TooWide == PyStr(<<"2", "1", "4", "7", "4", "8", "3", "6", "4", "8">>)
EventE == PyStr(<<"e">>)

\* The full-length records of a tag with key kv, text tv, integer iv; the
\* second target column of hot_trends (event_time) is ev.
FullRecord(tag, kv, tv, iv, ev) ==
    LET cols == {KeyCol(tag), TextCol(tag)}
                    \cup (IF IntCol(tag) = "" THEN {} ELSE {IntCol(tag)})
                    \cup (IF tag = "hot" THEN {"event_time"} ELSE {})
    IN  MkData(tag,
               [c \in cols |->
                    IF c = KeyCol(tag) THEN kv
                    ELSE IF c = TextCol(tag) THEN tv
                    ELSE IF c = "event_time" THEN ev ELSE iv],
               Len(TABLE_CONFIGS[tag].fields))

\* Data one field long (shorter than every field list), and data one value
\* longer than the field list.
ShortRecord(tag) == <<IF tag = "hot" THEN Num7 ELSE TextA>>
LongRecord(tag) ==
    MkData(tag, [c \in {KeyCol(tag)} |-> K1], Len(TABLE_CONFIGS[tag].fields) + 1)

(***************************************************************************)
(* SpecUpsert: one DataBank, initialized once, with the store reachable,   *)
(* saving records of every tag with every combination of the key and       *)
(* value choices below.  A run keeps to one tag.                           *)
(***************************************************************************)
UpsertKeys == {PyNone, K1, K2}
UpsertValues ==
    {<<TextA, Num7>>, <<Num7, NotANumber>>, <<PyNone, PyNone>>, <<TextA, PyNone>>}

\* One record has a list in the INTEGER column; hot_trends records also
\* come without the target's second column.
UpsertRecords(tag) ==
    {FullRecord(tag, kv, tv[1], tv[2], EventE) : kv \in UpsertKeys, tv \in UpsertValues}
        \cup {FullRecord(tag, K1, TextA, PyObj, EventE)}
        \cup (IF tag = "hot"
              THEN {FullRecord(tag, K1, tv[1], tv[2], PyNone) : tv \in UpsertValues}
              ELSE {})

UpsertInputs == Eager([tag \in Tags |-> UpsertRecords(tag)])

\* Every stored row was saved under the tag.
OneTag(tag) ==
    \A t \in TableNames : \A i \in 1..Len(store[t]) :
        store[t][i]["source_type"] = PyStr(<<TABLE_CONFIGS[tag].source_type>>)

NextUpsert ==
    \/ pool = 0 /\ Initialize("ok")
    \/ \E tag \in Tags :
            /\ OneTag(tag)
            /\ \E data \in UpsertInputs[tag] : Save(data, tag, FALSE)

SpecUpsert == Init /\ [][NextUpsert]_vars

(***************************************************************************)
(* Spec: the whole life of one DataBank.  initialize may succeed or fail   *)
(* either way, close and every data method may be called in every state,   *)
(* the store may be unreachable for any one call, and callers pass         *)
(* unknown tags and tables too.                                            *)
(***************************************************************************)
UnknownTag == "video"
UnknownTable == "videos"

CommentOk == FullRecord("comment", K1, TextA, Num9, EventE)
CommentWide == FullRecord("comment", K1, TextB, TooWide, EventE)
DetailKeyOnly == MkData("detail", [c \in {"id"} |-> K1], Len(ContentFields))

\* The records save is called with, by tag.
SaveInputs ==
    [comment |-> {CommentOk, CommentWide, ShortRecord("comment"),
                  LongRecord("comment")},
     detail |-> {DetailKeyOnly},
     video |-> {<<TextA>>}]

\* The batches save_batch is called with: up to MaxBatch comment records.
BatchRecords == {CommentOk, CommentWide}

BatchItems == UNION {[1..n -> BatchRecords] : n \in 0..MaxBatch}

\* The store is unreachable for the records at the positions of down.
FaultsAt(items, down) == [i \in 1..Len(items) |-> i \in down]

\* The table a query method is called with, and whether the store is
\* unreachable for the call.
QueryInputs == {<<"comments", FALSE>>, <<"comments", TRUE>>, <<UnknownTable, FALSE>>}

Next ==
    \/ \E outcome \in InitOutcomes : Initialize(outcome)
    \/ Close
    \/ \E type_ \in DOMAIN SaveInputs : \E data \in SaveInputs[type_] :
            Save(data, type_, FALSE)
    \/ Save(CommentOk, "comment", TRUE)
    \/ \E items \in BatchItems : \E down \in {{}, {1}} :
            SaveBatch(items, "comment", FaultsAt(items, down))
    \/ SaveBatch(<<CommentOk, CommentOk>>, UnknownTag, <<FALSE, FALSE>>)
    \/ \E q \in QueryInputs : Query(q[1], EmptyDict, 1, 0, "created_at DESC", q[2])
    \/ \E q \in QueryInputs : Count(q[1], EmptyDict, q[2])
    \/ \E q \in QueryInputs : GetAllData(q[1], EmptyDict, "created_at DESC", q[2])
    \/ \E fault \in BOOLEAN : GetStatistics(fault)

Spec == Init /\ [][Next]_vars

(***************************************************************************)
(* SpecQuery: one DataBank, initialized once, with the store reachable:    *)
(* comments are saved, and the tables are queried with zero, one and two   *)
(* filters, several limits and offsets, and both orders.                   *)
(***************************************************************************)
QueryRecords ==
    {FullRecord("comment", kv, tv, Num7, EventE) :
        kv \in {PyNone, K1, K2}, tv \in {TextA, TextB}}

\* A filters dict from its (column, value) pairs in order.
RECURSIVE MkDict(_)
MkDict(pairs) ==
    IF pairs = <<>> THEN EmptyDict
    ELSE DictSet(MkDict(SubSeq(pairs, 1, Len(pairs) - 1)),
                 pairs[Len(pairs)][1], pairs[Len(pairs)][2])

QueryFilters ==
    {EmptyDict,
     MkDict(<<<<"text", TextA>>>>),
     MkDict(<<<<"text", TextA>>, <<"cid", K1>>>>)}

QueryLimits == {1, 2}
QueryOffsets == {0, 1}

NextQuery ==
    \/ pool = 0 /\ Initialize("ok")
    \/ \E data \in QueryRecords : Save(data, "comment", FALSE)
    \/ \E filters \in QueryFilters : \E limit \in QueryLimits :
            \E offset \in QueryOffsets : \E order_by \in OrderClauses :
                Query("comments", filters, limit, offset, order_by, FALSE)
    \/ \E table \in TableNames : Count(table, EmptyDict, FALSE)
    \/ \E filters \in QueryFilters : Count("comments", filters, FALSE)
    \/ \E table \in TableNames : \E order_by \in OrderClauses :
            GetAllData(table, EmptyDict, order_by, FALSE)
    \/ \E filters \in QueryFilters :
            GetAllData("comments", filters, "created_at DESC", FALSE)

SpecQuery == Init /\ [][NextQuery]_vars

(***************************************************************************)
(* SpecMapping: one DataBank, initialized once, saving for every tag data  *)
(* that is empty, shorter than the field list, as long, and longer.  A run *)
(* keeps to one tag.                                                       *)
(***************************************************************************)
MappingInputs ==
    Eager([tag \in Tags |->
            {<<>>, ShortRecord(tag), LongRecord(tag),
             FullRecord(tag, K2, TextA, Num7, EventE)}])

NextMapping ==
    \/ pool = 0 /\ Initialize("ok")
    \/ \E tag \in Tags :
            /\ OneTag(tag)
            /\ \E data \in MappingInputs[tag] : Save(data, tag, FALSE)

SpecMapping == Init /\ [][NextMapping]_vars

(***************************************************************************)
(* SpecShared: one DataBank, initialized once, saving contents with the    *)
(* same id and with another id under the three tags that share the table.  *)
(***************************************************************************)
ContentTags == {tag \in Tags : TABLE_CONFIGS[tag].table = "contents"}

SharedInputs ==
    Eager([tag \in ContentTags |->
            {FullRecord(tag, K1, TextA, Num7, EventE),
             FullRecord(tag, K1, TextB, Num7, EventE),
             FullRecord(tag, K2, TextA, Num7, EventE)}])

NextShared ==
    \/ pool = 0 /\ Initialize("ok")
    \/ \E tag \in ContentTags : \E data \in SharedInputs[tag] :
            Save(data, tag, FALSE)

SpecShared == Init /\ [][NextShared]_vars

(***************************************************************************)
(* Concurrent calls.  The event loop runs one task at a time and switches  *)
(* at an await: a data method runs from its call to pool.acquire() in one  *)
(* step, gets its connection in a second, runs each statement in a step of *)
(* its own and leaves the async with block (and returns) in a last one.    *)
(* The store runs each statement atomically.                               *)
(***************************************************************************)
\* asyncpg.create_pool(.., max_size=10): the connections the pool has.
max_size == 10

\* pool.acquire() waits while every connection is checked out.
CanAcquire(n) == n < max_size

\* A block that keeps its connection when its statement raised.
ReleasedOnSuccess(n, err) == IF err # "" THEN n ELSE n - 1

\* Leaving async with self.pool.acquire(), by return or by exception.
Released(n, err) == n - 1

\* A call at its first await, and a call that returned without one.
Started(op, args) ==
    [pc |-> "acquire", op |-> op, args |-> args, acquired |-> 0, held |-> 0,
     stmts |-> 0, err |-> "", old |-> NoRow, val |-> <<>>,
     ret |-> Returned(PyNone)]

Finished(op, args, r) == [Started(op, args) EXCEPT !.pc = "done", !.ret = r]

\* The statement a call in flight runs next, run on the store.
RunNext(db, f) ==
    CASE f.op = "save" -> SaveTry(db, f.args.data, f.args.type_, FALSE)
      [] f.op = "query" ->
            Fetch(db, QueryStatement(f.args.table, EmptyDict, PyInt(1), PyInt(0),
                                     "created_at DESC"), FALSE)
      [] f.op = "count" -> Fetch(db, CountStatement(f.args.table, EmptyDict), FALSE)
      [] f.op = "get_all_data" ->
            Fetch(db, GetAllStatement(f.args.table, EmptyDict, "created_at DESC"),
                  FALSE)
      [] OTHER ->
            Fetch(db, CountStatement(StatisticsTables[f.stmts + 1], EmptyDict), FALSE)

\* The call: the checks before the first await.
Begin(t, op, args) ==
    /\ flight[t] = Idle
    /\ \A u \in Tasks : u < t => flight[u] # Idle
    /\ flight' = [flight EXCEPT ![t] =
            IF ~IsAvailable(pool, enabled)
            THEN Finished(op, args,
                          Returned(IF op = "save" THEN FALSE
                                   ELSE IF op = "count" THEN 0 ELSE <<>>))
            ELSE IF op = "save" /\ args.type_ \notin DOMAIN TABLE_CONFIGS
            THEN Finished(op, args, Returned(FALSE))
            ELSE Started(op, args)]
    /\ UNCHANGED <<pool, enabled, opened, created, store, life, call, ret, log,
                   checkedOut>>

\* async with self.pool.acquire() as conn: entering the block.
Acquire(t) ==
    /\ flight[t].pc = "acquire"
    /\ CanAcquire(checkedOut)
    /\ checkedOut' = checkedOut + 1
    /\ flight' = [flight EXCEPT ![t].pc = "execute", ![t].acquired = 1,
                                ![t].held = 1]
    /\ UNCHANGED <<pool, enabled, opened, created, store, life, call, ret, log>>

\* await conn.execute / fetch / fetchval: one statement.  get_statistics
\* stays in the block for the next table.
Execute(t) ==
    /\ flight[t].pc = "execute"
    /\ \E out \in {RunNext(store, flight[t])} :
        /\ TotalRows(out.db) <= MaxRows
        /\ store' = out.db
        /\ flight' = [flight EXCEPT
                ![t].stmts = @ + 1,
                ![t].err = out.err,
                ![t].old = out.old,
                ![t].val = IF flight[t].op = "get_statistics" /\ out.err = ""
                           THEN (StatisticsTables[flight[t].stmts + 1] :> out.val) @@ @
                           ELSE out.val,
                ![t].pc = IF /\ flight[t].op = "get_statistics"
                             /\ out.err = ""
                             /\ flight[t].stmts + 1 < Len(StatisticsTables)
                          THEN "execute" ELSE "release"]
    /\ UNCHANGED <<pool, enabled, opened, created, life, call, ret, log, checkedOut>>

\* Leaving the block, and the return (or the except clause of save).
Release(t) ==
    /\ flight[t].pc = "release"
    /\ checkedOut' = Released(checkedOut, flight[t].err)
    /\ flight' = [flight EXCEPT
            ![t].pc = "done",
            ![t].held = Released(flight[t].held, flight[t].err),
            ![t].ret = IF flight[t].op = "save" THEN SaveExcept(flight[t])
                       ELSE Propagate(flight[t])]
    /\ UNCHANGED <<pool, enabled, opened, created, store, life, call, ret, log>>

(***************************************************************************)
(* SpecConcurrent: one DataBank, initialized once; each task makes one     *)
(* call, and the calls interleave at their awaits in every way.            *)
(***************************************************************************)
ConcurrentRecords ==
    {CommentOk, CommentWide,
     FullRecord("comment", K1, TextB, Num7, EventE),
     FullRecord("comment", K2, TextA, Num7, EventE)}

ConcurrentCalls ==
    {[op |-> "save", args |-> [data |-> d, type_ |-> "comment"]] :
        d \in ConcurrentRecords}
    \cup {[op |-> o, args |-> [table |-> "comments"]] :
            o \in {"query", "count", "get_all_data"}}
    \cup {[op |-> "get_statistics", args |-> <<>>]}

NextConcurrent ==
    \/ pool = 0 /\ Initialize("ok")
    \/ \E t \in Tasks : \E c \in ConcurrentCalls : Begin(t, c.op, c.args)
    \/ \E t \in Tasks : Acquire(t)
    \/ \E t \in Tasks : Execute(t)
    \/ \E t \in Tasks : Release(t)

SpecConcurrent == Init /\ [][NextConcurrent]_vars

(***************************************************************************)
(* What the properties below read off a state.                             *)
(***************************************************************************)
DataOps == {"save", "save_batch", "query", "count", "get_all_data", "get_statistics"}

\* The value a record gives to column c of its tag's table: the value at the
\* column's position, the tag's source_type, None for a column the record
\* does not reach or the field list does not have.
Incoming(tag, data, c) ==
    LET fields == TABLE_CONFIGS[tag].fields
        at == {i \in 1..Len(fields) : i <= Len(data) /\ fields[i] = c}
    IN  IF c = "source_type" THEN PyStr(<<TABLE_CONFIGS[tag].source_type>>)
        ELSE IF at = {} THEN PyNone
        ELSE data[CHOOSE i \in at : TRUE]

\* What the store is expected to hold for an incoming value: the number a
\* numeric text stands for and 0 for any other text in an INTEGER column,
\* the value itself elsewhere.
ExpectedStored(table, c, v) ==
    IF c \notin CREATE_TABLES_SQL[table].integer THEN v
    ELSE CASE v = Num7 -> PyInt(7)
           [] v = Num9 -> PyInt(9)
           [] v = NotANumber -> PyInt(0)
           [] v = PyObj -> PyInt(0)
           [] OTHER -> v

\* The rows of a table whose UNIQUE columns hold what the record gives them.
RowsOfKey(tag, data) ==
    LET table == TABLE_CONFIGS[tag].table
    IN  {i \in 1..Len(store[table]) :
            \A k \in SeqRange(CREATE_TABLES_SQL[table].unique) :
                Get(store[table][i], k) = Incoming(tag, data, k)}

KeyGiven(tag, data) ==
    \A k \in SeqRange(CREATE_TABLES_SQL[TABLE_CONFIGS[tag].table].unique) :
        Incoming(tag, data, k) # PyNone

\* The row the last statement of the log wrote: the one it replaced, as it
\* is now, or the one it appended.
WrittenRow(table, entry) ==
    IF entry.old = NoRow THEN store[table][Len(store[table])]
    ELSE store[table][CHOOSE i \in 1..Len(store[table]) :
                        store[table][i]["created_at"] = entry.old["created_at"]]

\* What each data method returns when it has nothing.
EmptyResult(op) ==
    CASE op = "save" -> FALSE
      [] op \in {"save_batch", "count"} -> 0
      [] OTHER -> <<>>

(***************************************************************************)
(* The properties.                                                         *)
(***************************************************************************)
\* C1: for every tag and every non-null conflict key, after a save of a
\* record with that key has returned True (the first save of the key or a
\* later one with other values) the table holds exactly one row for the key
\* and every non-key column the record supplies holds the record's value.
C1_UpsertLeavesOneRowWithLatestValues ==
    (call.op = "save" /\ ret = Returned(TRUE) /\ KeyGiven(call.type_, call.data)) =>
        LET table == TABLE_CONFIGS[call.type_].table
            key == SeqRange(CREATE_TABLES_SQL[table].unique)
            same == RowsOfKey(call.type_, call.data)
        IN  /\ Cardinality(same) = 1
            /\ \A i \in same : \A c \in TableColumns(table) \ key :
                    Incoming(call.type_, call.data, c) # PyNone =>
                        Get(store[table][i], c) =
                            ExpectedStored(table, c,
                                           Incoming(call.type_, call.data, c))

\* A second save of a key replaced a row whose text differs from the text
\* the record brings.
C1_Witness ==
    /\ call.op = "save" /\ ret = Returned(TRUE)
    /\ KeyGiven(call.type_, call.data)
    /\ log[1].old # NoRow
    /\ Incoming(call.type_, call.data, TextCol(call.type_)) # PyNone
    /\ Get(log[1].old, TextCol(call.type_)) # PyNone
    /\ Get(log[1].old, TextCol(call.type_)) #
            Incoming(call.type_, call.data, TextCol(call.type_))
    /\ Cardinality(RowsOfKey(call.type_, call.data)) = 1

\* C2: every table holds at most one row per combination of the values of
\* its conflict-target columns, null values included.
C2_OneRowPerConflictTarget ==
    \A t \in TableNames : \A i, j \in 1..Len(store[t]) :
        i # j => \E k \in SeqRange(CREATE_TABLES_SQL[t].unique) :
                    Get(store[t][i], k) # Get(store[t][j], k)

\* C3: a save that returned True and replaced a row left every column the
\* record gives no value (null or absent) as it was stored, and gave every
\* column that was null in the stored row and has a value in the record
\* the record's value.
C3_NullNeverOverwrites ==
    (call.op = "save" /\ ret = Returned(TRUE) /\ log[1].old # NoRow) =>
        LET table == TABLE_CONFIGS[call.type_].table
            old == log[1].old
            kept == {i \in 1..Len(store[table]) :
                        store[table][i]["created_at"] = old["created_at"]}
        IN  /\ Cardinality(kept) = 1
            /\ \A i \in kept : \A c \in TableColumns(table) :
                    LET in == Incoming(call.type_, call.data, c)
                    IN  /\ in = PyNone => Get(store[table][i], c) = Get(old, c)
                        /\ (Get(old, c) = PyNone /\ in # PyNone) =>
                                Get(store[table][i], c) = ExpectedStored(table, c, in)

\* A save whose record has no value for the INTEGER column replaced a row
\* that had been saved with one.
C3_Witness ==
    /\ call.op = "save" /\ ret = Returned(TRUE) /\ log[1].old # NoRow
    /\ IntCol(call.type_) # ""
    /\ Incoming(call.type_, call.data, IntCol(call.type_)) = PyNone
    /\ Get(log[1].old, IntCol(call.type_)) = PyInt(7)
    /\ Get(WrittenRow(TABLE_CONFIGS[call.type_].table, log[1]),
           IntCol(call.type_)) = PyInt(7)

\* C4: save never raises: it returns a boolean, False whenever its
\* statement failed, and True only after it acquired a connection and its
\* one statement ran without error.
C4_SaveNeverRaises ==
    call.op = "save" =>
        /\ ~ret.raised
        /\ ret.val \in BOOLEAN
        /\ Len(log) = 1
        /\ log[1].err # "" => ret.val = FALSE
        /\ ret.val = TRUE =>
                log[1].acquired = 1 /\ log[1].stmts = 1 /\ log[1].err = ""

\* The driver refused a parameter of the statement and save returned False.
C4_Witness ==
    /\ call.op = "save"
    /\ log[1].acquired = 1 /\ log[1].err = "DataError"
    /\ ret = Returned(FALSE)

\* C5: query, count, get_all_data and get_statistics never raise: when the
\* store reports an error they return their empty result.
C5_QueriesNeverRaise ==
    call.op \in {"query", "count", "get_all_data", "get_statistics"} =>
        /\ ~ret.raised
        /\ log[1].err # "" => ret = Returned(EmptyResult(call.op))

\* C6: while the layer is available, save_batch attempts every record (one
\* save per record, in order), returns the number of those saves that
\* returned True, no save raises, and the records saved are in the store
\* whatever happened to the others: a row for each key saved, and at least
\* as many rows as the saves inserted.
C6_BatchCountsSuccesses ==
    (call.op = "save_batch" /\ pool # 0 /\ enabled) =>
        LET n == Len(call.items)
            ok == {i \in 1..Len(log) : log[i].ret = Returned(TRUE)}
            inserted == {i \in ok : log[i].old = NoRow}
        IN  /\ Len(log) = n
            /\ \A i \in 1..Len(log) : ~log[i].ret.raised
            /\ ret = Returned(Cardinality(ok))
            /\ \A i \in ok :
                    KeyGiven(call.type_, call.items[i]) =>
                        RowsOfKey(call.type_, call.items[i]) # {}
            /\ TotalRows(store) >= Cardinality(inserted)

\* A batch of two whose first record failed and whose second was saved.
C6_Witness ==
    /\ call.op = "save_batch" /\ pool # 0 /\ enabled
    /\ Len(call.items) = 2 /\ Len(log) = 2
    /\ log[1].ret = Returned(FALSE)
    /\ log[2].ret = Returned(TRUE)
    /\ ret = Returned(1)

\* C7: a data method called while the layer is uninitialized, degraded or
\* closed returns its empty result, asks the pool for no connection, sends
\* no statement and leaves the store as it was.
C7_UnavailableShortCircuits ==
    [][(call'.op \in DataOps /\ life \in {"uninitialized", "degraded", "closed"}) =>
            /\ ret' = Returned(EmptyResult(call'.op))
            /\ \A i \in 1..Len(log') :
                    log'[i].acquired = 0 /\ log'[i].stmts = 0
            /\ store' = store]_vars

\* save was called on a layer whose initialize created the pool and then
\* failed to create the tables.
C7_Witness ==
    /\ life = "degraded" /\ pool # 0 /\ ~enabled
    /\ call.op = "save"
    /\ ret = Returned(FALSE)
    /\ log[1].acquired = 0

\* C8: while the layer is available, a save of a record that gives an
\* integer column of its table a non-null value that is no integer returns
\* True, the row it wrote holds 0 in that column, and every other column
\* the record supplies holds the record's value, the columns outside the
\* integer set exactly as given.
C8_UnparsableIntegerStoredAsZero ==
    (call.op = "save" /\ pool # 0 /\ enabled) =>
        LET table == TABLE_CONFIGS[call.type_].table
            ints == IntegerColumnsOf(table)
            bad == {c \in ints :
                        Incoming(call.type_, call.data, c) \in {NotANumber, PyObj}}
        IN  bad # {} =>
                /\ ret = Returned(TRUE)
                /\ \A c \in bad : Get(WrittenRow(table, log[1]), c) = PyInt(0)
                /\ \A c \in TableColumns(table) \ bad :
                        Incoming(call.type_, call.data, c) # PyNone =>
                            Get(WrittenRow(table, log[1]), c) =
                                IF c \in ints
                                THEN ExpectedStored(table, c,
                                        Incoming(call.type_, call.data, c))
                                ELSE Incoming(call.type_, call.data, c)

\* A record with "N/A" in an integer column and the text "7" in a text
\* column was saved: the row holds 0 and the text "7".
C8_Witness ==
    /\ call.op = "save" /\ ret = Returned(TRUE)
    /\ IntCol(call.type_) # ""
    /\ Incoming(call.type_, call.data, IntCol(call.type_)) = NotANumber
    /\ Incoming(call.type_, call.data, TextCol(call.type_)) = Num7
    /\ Get(WrittenRow(TABLE_CONFIGS[call.type_].table, log[1]),
           IntCol(call.type_)) = PyInt(0)
    /\ Get(WrittenRow(TABLE_CONFIGS[call.type_].table, log[1]),
           TextCol(call.type_)) = Num7

\* C9: in every store state and for every known table, count(table, {})
\* returns the number of rows get_all_data(table, {}) returns, whatever the
\* order asked for; the calls made return those results.
C9_CountEqualsLenGetAll ==
    /\ \A table \in TableNames : \A order_by \in OrderClauses :
            CountCall(pool, enabled, store, table, EmptyDict, FALSE).ret =
                Returned(Len(GetAllDataCall(pool, enabled, store, table, EmptyDict,
                                            order_by, FALSE).ret.val))
    /\ (call.op = "count" /\ call.filters = EmptyDict) =>
            ret = Returned(Len(GetAllDataCall(pool, enabled, store, call.table,
                                              EmptyDict, "created_at DESC",
                                              FALSE).ret.val))
    /\ (call.op = "get_all_data" /\ call.filters = EmptyDict) =>
            Returned(Len(ret.val)) =
                CountCall(pool, enabled, store, call.table, EmptyDict, FALSE).ret

\* count("comments", {}) returned 2 with two comments stored.
C9_Witness ==
    /\ call.op = "count" /\ call.table = "comments" /\ call.filters = EmptyDict
    /\ Len(store["comments"]) = 2
    /\ ret = Returned(2)

\* C10: a query on an available layer returns at most limit rows, each
\* equal to the filter value on every filter column; the rows are the
\* matching rows number offset+1 .. offset+limit in the order asked for
\* (newest first for created_at DESC, the default), which is what binding
\* limit to LIMIT and offset to OFFSET gives.
C10_QueryPageOfMatches ==
    (call.op = "query" /\ pool # 0 /\ enabled /\ ~ret.raised) =>
        LET rows == store[call.table]
            f == call.filters
            At(r) == IntValue(r["created_at"])
            M == {i \in 1..Len(rows) :
                    \A k \in 1..Len(f.keys) :
                        Get(rows[i], f.keys[k]) = f.val[f.keys[k]]}
            Ahead(i) == {j \in M : IF call.order_by = "created_at DESC"
                                   THEN At(rows[j]) > At(rows[i])
                                   ELSE At(rows[j]) < At(rows[i])}
            rest == IF Cardinality(M) > call.offset
                    THEN Cardinality(M) - call.offset ELSE 0
        IN  /\ Len(ret.val) <= call.limit
            /\ \A n \in 1..Len(ret.val) : \A k \in 1..Len(f.keys) :
                    ret.val[n][f.keys[k]] = f.val[f.keys[k]]
            /\ call.order_by = "created_at DESC" =>
                    \A n \in 1..(Len(ret.val) - 1) :
                        At(ret.val[n]) >= At(ret.val[n + 1])
            /\ Len(ret.val) = IF rest < call.limit THEN rest ELSE call.limit
            /\ \A n \in 1..Len(ret.val) : \E i \in M :
                    /\ Cardinality(Ahead(i)) = call.offset + n - 1
                    /\ \A c \in TableColumns(call.table) :
                            ret.val[n][c] = Get(rows[i], c)

\* A query with one filter, limit 1 and offset 1 over two matching rows
\* returned the older of the two.
C10_Witness ==
    /\ call.op = "query" /\ Len(call.filters.keys) = 1
    /\ call.limit = 1 /\ call.offset = 1 /\ call.order_by = "created_at DESC"
    /\ Len(store["comments"]) = 2
    /\ Len(ret.val) = 1
    /\ ret.val[1]["created_at"] = store["comments"][1]["created_at"]
    /\ Get(store["comments"][2], "text") = TextA

\* C11: a save whose tag is not in TABLE_CONFIGS returns False, asks the
\* pool for no connection, sends no statement and leaves every table as it
\* was; a save_batch with such a tag on an available layer attempts every
\* one of its records, each failing that way, and returns 0.
C11_UnknownTagIsNoOp ==
    [][(call'.op \in {"save", "save_batch"} /\ call'.type_ \notin DOMAIN TABLE_CONFIGS) =>
            /\ ~ret'.raised /\ ret' = Returned(EmptyResult(call'.op))
            /\ \A i \in 1..Len(log') :
                    /\ ~log'[i].ret.raised /\ log'[i].ret = Returned(FALSE)
                    /\ log'[i].acquired = 0 /\ log'[i].stmts = 0
            /\ (call'.op = "save_batch" /\ pool # 0 /\ enabled) =>
                    Len(log') = Len(call'.items)
            /\ store' = store]_vars

\* A batch of two records under an unknown tag ran on an available layer.
C11_Witness ==
    /\ call.op = "save_batch" /\ call.type_ = UnknownTag
    /\ pool # 0 /\ enabled
    /\ Len(call.items) = 2 /\ Len(log) = 2
    /\ log[2].ret = Returned(FALSE) /\ log[2].acquired = 0
    /\ ret = Returned(0)

\* C12: every call that gets past its checks acquires exactly one
\* connection and holds it from the acquisition to the end of its block,
\* whatever its statement did: the connections checked out are those of
\* the calls inside their blocks, none when no call is in progress, and
\* never more than max_size.
C12_OneConnectionPerCallAlwaysReleased ==
    /\ checkedOut = Cardinality({t \in Tasks : flight[t].pc \in {"execute", "release"}})
    /\ checkedOut <= max_size
    /\ (\A t \in Tasks : flight[t].pc \in {"idle", "done"}) => checkedOut = 0
    /\ \A t \in Tasks : flight[t] # Idle =>
            /\ flight[t].held = IF flight[t].pc \in {"execute", "release"} THEN 1 ELSE 0
            /\ flight[t].acquired = IF flight[t].pc = "acquire" THEN 0
                                    ELSE IF flight[t].pc = "done" /\ flight[t].stmts = 0
                                    THEN 0 ELSE 1

\* Every call has returned, one of them a save whose statement the driver
\* refused, and no connection is checked out.
C12_Witness ==
    /\ \A t \in Tasks : flight[t].pc = "done"
    /\ \E t \in Tasks :
            /\ flight[t].op = "save" /\ flight[t].acquired = 1
            /\ flight[t].err = "DataError" /\ flight[t].ret = Returned(FALSE)
    /\ \E t \in Tasks : flight[t].op = "query" /\ flight[t].acquired = 1
    /\ checkedOut = 0

\* C13: no call runs more than one statement on a connection it holds:
\* the statements a call has run never outnumber the connections it has
\* acquired.
C13_OneStatementPerConnection ==
    \A t \in Tasks : flight[t] # Idle => flight[t].stmts <= flight[t].acquired

\* C14: under every interleaving of concurrent saves the table holds at
\* most one row per non-null key, a save that returned True left a row for
\* its key, and the statement of a save (one atomic step of the store)
\* writes its values to the row of its key and leaves every row of another
\* key as it was.
C14_ConcurrentUpsertsSerialize ==
    [][/\ \A i, j \in 1..Len(store'["comments"]) :
            (i # j /\ Get(store'["comments"][i], "cid") # PyNone) =>
                Get(store'["comments"][i], "cid") # Get(store'["comments"][j], "cid")
       /\ \A t \in Tasks :
            (flight'[t].pc = "done" /\ flight'[t].op = "save"
                /\ flight'[t].ret = Returned(TRUE)) =>
                \E i \in 1..Len(store'["comments"]) :
                    Get(store'["comments"][i], "cid") =
                        Incoming("comment", flight'[t].args.data, "cid")
       /\ \A t \in Tasks :
            (flight[t].pc = "execute" /\ flight'[t].pc = "release"
                /\ flight[t].op = "save") =>
                LET key == Incoming("comment", flight[t].args.data, "cid")
                    text == Incoming("comment", flight[t].args.data, "text")
                IN  /\ Len(store'["comments"]) \in
                            {Len(store["comments"]), Len(store["comments"]) + 1}
                    /\ \A i \in 1..Len(store["comments"]) :
                            Get(store["comments"][i], "cid") # key =>
                                store'["comments"][i] = store["comments"][i]
                    /\ flight'[t].err = "" =>
                            \E i \in 1..Len(store'["comments"]) :
                                /\ Get(store'["comments"][i], "cid") = key
                                /\ Get(store'["comments"][i], "text") = text]_vars

\* Two saves of the same key with different texts ran concurrently, both
\* returned True, and the table holds one row.
C14_Witness ==
    /\ \A t \in Tasks : flight[t].pc = "done" /\ flight[t].op = "save"
    /\ \A t \in Tasks : flight[t].ret = Returned(TRUE)
    /\ \A t \in Tasks : Incoming("comment", flight[t].args.data, "cid") = K1
    /\ \E t, u \in Tasks :
            Incoming("comment", flight[t].args.data, "text") #
                Incoming("comment", flight[u].args.data, "text")
    /\ Len(store["comments"]) = 1

\* C15: the mapping save builds pairs the i-th value with the i-th field
\* for every i up to min(len(data), len(fields)), holds no other field,
\* and holds source_type with the tag's value, last; the row a successful
\* save wrote holds the mapping's non-null text values, and so nothing of
\* the values beyond the field list.
C15_PositionalMapping ==
    (call.op = "save" /\ call.type_ \in DOMAIN TABLE_CONFIGS) =>
        LET config == TABLE_CONFIGS[call.type_]
            fields == config.fields
            data == call.data
            n == IF Len(data) < Len(fields) THEN Len(data) ELSE Len(fields)
            m == SaveValues(data, call.type_)
        IN  /\ m.keys = SubSeq(fields, 1, n) \o <<"source_type">>
            /\ DOMAIN m.val = {fields[i] : i \in 1..n} \cup {"source_type"}
            /\ \A i \in 1..n : m.val[fields[i]] = data[i]
            /\ m.val["source_type"] = PyStr(<<config.source_type>>)
            /\ ret = Returned(TRUE) =>
                    \A c \in TableColumns(config.table) \ {"created_at"} :
                        LET stored == Get(WrittenRow(config.table, log[1]), c)
                        IN  IF c \in DOMAIN m.val /\ m.val[c] # PyNone
                            THEN stored = ExpectedStored(config.table, c, m.val[c])
                            ELSE log[1].old = NoRow =>
                                    stored \in {PyNone, PyInt(0)}

\* Data one value longer than the field list was saved: the row holds the
\* key and no column holds the extra value.
C15_Witness ==
    /\ call.op = "save" /\ call.type_ \in DOMAIN TABLE_CONFIGS
    /\ Len(call.data) = Len(TABLE_CONFIGS[call.type_].fields) + 1
    /\ ret = Returned(TRUE)
    /\ LET row == WrittenRow(TABLE_CONFIGS[call.type_].table, log[1])
       IN  /\ Get(row, KeyCol(call.type_)) = K1
           /\ \A c \in DOMAIN row : row[c] # PyStr(<<"x">>)

\* C16: a save under a tag of the contents table leaves every row of
\* another source_type as it was, and after it returned True the table
\* holds exactly one row with the record's id and the tag's source_type;
\* no two rows ever share both id and source_type.
C16_OneRowPerIdAndSourceType ==
    [][(call'.op = "save" /\ call'.type_ \in ContentTags) =>
            LET source == PyStr(<<TABLE_CONFIGS[call'.type_].source_type>>)
                id == Incoming(call'.type_, call'.data, "id")
                old == store["contents"]
                new == store'["contents"]
            IN  /\ Len(new) >= Len(old)
                /\ \A i \in 1..Len(old) :
                        old[i]["source_type"] # source => new[i] = old[i]
                /\ \A i, j \in 1..Len(new) :
                        (i # j /\ Get(new[i], "id") = Get(new[j], "id")) =>
                            new[i]["source_type"] # new[j]["source_type"]
                /\ (~ret'.raised /\ ret'.val = TRUE) =>
                        Cardinality({i \in 1..Len(new) :
                                        /\ Get(new[i], "id") = id
                                        /\ new[i]["source_type"] = source}) = 1]_vars

\* The same id was saved under detail and then, with another text, under
\* mix: two rows, the detail row with its own text.
C16_Witness ==
    /\ call.op = "save" /\ call.type_ = "mix" /\ ret = Returned(TRUE)
    /\ Len(store["contents"]) = 2
    /\ Get(store["contents"][1], "id") = K1
    /\ Get(store["contents"][2], "id") = K1
    /\ store["contents"][1]["source_type"] = PyStr(<<"detail">>)
    /\ store["contents"][2]["source_type"] = PyStr(<<"mix">>)
    /\ Get(store["contents"][1], "desc") # Get(store["contents"][2], "desc")

\* C17: is_available is true exactly when the most recent initialize
\* succeeded and close has not been called since.
C17_AvailableIffLastInitializeSucceeded ==
    IsAvailable(pool, enabled) <=> life = "ready"

\* C18: at most one pool the instance created is open, and none once close
\* has returned.
C18_AtMostOnePoolNoneAfterClose ==
    /\ Cardinality(opened) <= 1
    /\ call.op = "close" => opened = {}

\* C19: the statement save builds for a table with a conflict target has
\* at least one assignment in DO UPDATE SET, and a save that reached the
\* store with a record whose only non-null columns are the conflict
\* target's returns True.
C19_SetClauseNeverEmpty ==
    (/\ call.op = "save" /\ call.type_ \in DOMAIN TABLE_CONFIGS
     /\ log[1].acquired = 1 /\ log[1].err # "ConnectionError") =>
        LET table == TABLE_CONFIGS[call.type_].table
            st == UpsertStatement(table,
                                  CoerceTypes(table, SaveValues(call.data, call.type_)))
            keyOnly == \A c \in TableColumns(table) :
                            Incoming(call.type_, call.data, c) # PyNone =>
                                c \in SeqRange(GetConflictTarget(table))
        IN  /\ st.sql.onConflict => st.sql.set # <<>>
            /\ (keyOnly /\ KeyGiven(call.type_, call.data)) => ret = Returned(TRUE)

\* C20: a save that reached the store with a value that parses as an
\* integer n in an integer column returns True and the row it wrote holds
\* n, also when n is 2^31 or more.
C20_EveryIntegerStoredExactly ==
    (/\ call.op = "save" /\ call.type_ \in DOMAIN TABLE_CONFIGS
     /\ log[1].acquired = 1 /\ log[1].err # "ConnectionError") =>
        LET table == TABLE_CONFIGS[call.type_].table
        IN  \A c \in IntegerColumnsOf(table) :
                LET in == Incoming(call.type_, call.data, c)
                IN  in \in {Num7, Num9, TooWide} =>
                        /\ ret = Returned(TRUE)
                        /\ Get(WrittenRow(table, log[1]), c) =
                                CASE in = Num7 -> PyInt(7)
                                  [] in = Num9 -> PyInt(9)
                                  [] OTHER -> MkInt(FALSE, TooWide.s)

=============================================================================
